---- MODULE Spec2Model ----
(***************************************************************************)
(* The AIChat widget of src/lib/ai/utils.ts as a state machine.            *)
(*                                                                         *)
(* The variables are the component's hook state (useState / useRef), the   *)
(* browser resources it creates (interval and timeout timers, object URLs, *)
(* audio elements), the asynchronous calls that are suspended at an await, *)
(* and a log of the HTTP requests issued through fetch.                    *)
(*                                                                         *)
(* One action is one task of the single-threaded event loop: a DOM event   *)
(* handler run up to its first await (together with the render and the     *)
(* effect clean-up / re-run that React commits for the state it set), a    *)
(* timer callback, or the continuation of an async function from one await *)
(* to the next.  A state setter is modelled as updating the hook cell it   *)
(* belongs to; setters called with an updater function (prev => ...) read  *)
(* the current cell, the others overwrite it.                              *)
(*                                                                         *)
(* A text is a sequence of chunks; the chunk " " is a white-space          *)
(* character, every other chunk is a run of characters that neither starts *)
(* nor ends with white space.                                              *)
(***************************************************************************)
EXTENDS Integers, Sequences, FiniteSets

\* ------------------------------------------------------------------ bounds
\* Accepted submissions, playAudio calls and clock ticks explored.
MaxSubmits == 2
MaxPlays == 1
MaxClock == 1

\* --------------------------------------------------------- program constants
\* setInterval(..., 60000) and setTimeout(..., 5000)
IntervalMs == 60000
HideDelayMs == 5000

\* 'Izvinite, proizoshla oshibka. Poprobuyte pozzhe.' (Cyrillic in the source)
FallbackText == <<"Izvinite,", " ", "proizoshla", " ", "oshibka.", " ", "Poprobuyte", " ", "pozzhe.">>

\* ------------------------------------------------------------- input domains
\* What onChange can put into the input box: nothing, blanks only, and a
\* text with blanks on both sides.
Inputs == { <<>>, <<" ", " ">>, <<" ", "a", " ">> }

\* JSON bodies a 2xx answer of /api/chat can decode to: the value null, or
\* an object whose error field is missing (undefined), "" or a message.
Undefined == [type |-> "undefined", str |-> <<>>]
Str(s) == [type |-> "string", str |-> s]
Replies == { <<"hi", " ">> }
ErrorFields == { Undefined, Str(<<>>), Str(<<"boom">>) }
Null == [type |-> "null", error |-> Undefined, response |-> <<>>]
Bodies == {Null} \cup [type : {"object"}, error : ErrorFields, response : Replies]

\* Messages of the exceptions that fetch / response.json() / audio.play()
\* reject with.
NetworkFailure == <<"Failed", " ", "to", " ", "fetch">>
JsonFailure == <<"Unexpected", " ", "token">>
NullFailure == <<"Cannot", " ", "read", " ", "properties", " ", "of", " ", "null">>
PlayFailure == <<"NotAllowedError">>

\* ------------------------------------------------------------ pure helpers
Whitespace == {" "}

\* String.prototype.trim
RECURSIVE TrimStart(_)
TrimStart(s) ==
    IF s # <<>> /\ Head(s) \in Whitespace THEN TrimStart(Tail(s)) ELSE s

RECURSIVE TrimEnd(_)
TrimEnd(s) ==
    IF s # <<>> /\ s[Len(s)] \in Whitespace
    THEN TrimEnd(SubSeq(s, 1, Len(s) - 1))
    ELSE s

Trim(s) == TrimEnd(TrimStart(s))

\* JavaScript truthiness of a decoded field: undefined and "" are falsy.
Truthy(v) == v.type = "string" /\ v.str # <<>>

DigitChar == <<"0", "1", "2", "3", "4", "5", "6", "7", "8", "9">>

\* Number.prototype.toString for a non-negative integer
RECURSIVE toString(_)
toString(n) ==
    IF n < 10
    THEN <<DigitChar[n + 1]>>
    ELSE toString(n \div 10) \o <<DigitChar[(n % 10) + 1]>>

Pad2(n) == IF n < 10 THEN <<"0">> \o toString(n) ELSE toString(n)

\* formatTime: hour and minute of the day, two digits each (UTC locale)
formatTime(t) ==
    Pad2((t \div (60 * 60 * 1000)) % 24) \o <<":">> \o Pad2((t \div (60 * 1000)) % 60)

\* new Error(message)
Error(msg) == [message |-> msg]

\* ------------------------------------------------------------------- state
VARIABLES
    isOpen,            \* useState(false)
    messages,          \* useState<Message[]>([])
    input,             \* useState('')
    isLoading,         \* useState(false)
    showNotification,  \* useState(false)
    chatInterval,      \* useRef: id of the interval created last, 0 = undefined
    intervals,         \* active setInterval timers: [id, isOpen seen by the callback]
    hideTimeouts,      \* pending setTimeout(() => setShowNotification(false), 5000)
    mounted,           \* the component is mounted
    chat,              \* handleSubmit calls suspended at an await
    audio,             \* playAudio calls: where each is, and its object URL
    posted,            \* fetch calls made: the bodies sent to /api/chat, the
                       \* number of requests sent to /api/speech
    escaped,           \* exceptions that left a handler uncaught
    now,               \* Date.now()
    last,              \* the task that ran last
    tts                \* a call of the exported textToSpeech: its arguments,
                       \* its environment, where it is and how it ended

vars == <<isOpen, messages, input, isLoading, showNotification, chatInterval,
          intervals, hideTimeouts, mounted, chat, audio, posted, escaped, now, last,
          tts>>

hookState == <<isOpen, messages, input, isLoading, showNotification>>
timerState == <<chatInterval, intervals, hideTimeouts>>

\* ---------------------------------------------------------------- messages
userMessage(text, t) ==
    [id |-> toString(t), text |-> text, isAI |-> FALSE, timestamp |-> formatTime(t)]

\* A reply shown trimmed instead of as received.
aiMessageTrimmed(data, t) ==
    [id |-> toString(t + 1), text |-> Trim(data.response), isAI |-> TRUE,
     timestamp |-> formatTime(t)]

\* A reply whose id is two past the clock.
aiMessagePlusTwo(data, t) ==
    [id |-> toString(t + 2), text |-> data.response, isAI |-> TRUE,
     timestamp |-> formatTime(t)]

aiMessage(data, t) ==
    [id |-> toString(t + 1), text |-> data.response, isAI |-> TRUE,
     timestamp |-> formatTime(t)]

\* A catch block that shows the error's own message.
fallbackMessageOfError(error, t) ==
    [id |-> toString(t), text |-> error.message, isAI |-> TRUE,
     timestamp |-> formatTime(t)]

fallbackMessage(error, t) ==
    [id |-> toString(t), text |-> FallbackText, isAI |-> TRUE,
     timestamp |-> formatTime(t)]

UserCount(msgs) == Cardinality({i \in 1..Len(msgs) : ~msgs[i].isAI})
AiCount(msgs) == Cardinality({i \in 1..Len(msgs) : msgs[i].isAI})

RemoveAt(s, i) == SubSeq(s, 1, i - 1) \o SubSeq(s, i + 1, Len(s))

\* ------------------------------------------------------------------- Init
\* The state after the first render and the first run of the effects.
FirstRender ==
    /\ isOpen = FALSE
    /\ messages = <<>>
    /\ input = <<>>
    /\ isLoading = FALSE
    /\ showNotification = FALSE
    /\ chatInterval = 1
    /\ intervals = {[id |-> 1, isOpen |-> FALSE]}
    /\ hideTimeouts = 0
    /\ mounted = TRUE
    /\ chat = <<>>
    /\ audio = <<>>
    /\ posted = [chat |-> <<>>, speech |-> 0]
    /\ escaped = FALSE
    /\ last = "mount"

WidgetInit == FirstRender /\ now = 0

\* textToSpeech is not called by the widget.
NotCalled == [pc |-> "idle"]

Init == WidgetInit /\ tts = NotCalled

\* ------------------------------------------------------------ input, clock
\* onChange={(e) => setInput(e.target.value)}.  The handler has no guard of
\* its own; the disabled attribute only stops keyboard input.
onChange(v) ==
    /\ mounted
    /\ input' = v
    /\ last' = "change"
    /\ UNCHANGED <<isOpen, messages, isLoading, showNotification, timerState,
                   mounted, chat, audio, posted, escaped, tts, now>>

Tick ==
    /\ now < MaxClock
    /\ now' = now + 1
    /\ last' = "tick"
    /\ UNCHANGED <<hookState, timerState, mounted, chat, audio, posted, escaped, tts>>

\* ------------------------------------------------------------ handleSubmit
\* An early return that forgets the in-flight flag.
SubmitRejectedBlankOnly(text, loading) == Trim(text) = <<>>

\* An early return that tests the input without trimming it.
SubmitRejectedUntrimmed(text, loading) == text = <<>> \/ loading

\* A handleSubmit without its early return.
SubmitRejectedNever(text, loading) == FALSE

\* The early return of handleSubmit.
SubmitRejected(text, loading) == Trim(text) = <<>> \/ loading

\* A request that sends the trimmed input.
ChatBodyTrimmed(text) == [message |-> Trim(text)]

\* body: JSON.stringify({ message: input })
ChatBody(text) == [message |-> text]

\* handleSubmit up to the await of fetch
handleSubmit ==
    /\ mounted
    /\ IF SubmitRejected(input, isLoading)
       THEN /\ last' = (IF Trim(input) = <<>> THEN "submit_blank" ELSE "submit_busy")
            /\ UNCHANGED <<hookState, chat, posted>>
       ELSE /\ UserCount(messages) < MaxSubmits
            /\ messages' = Append(messages, userMessage(input, now))
            /\ input' = <<>>
            /\ isLoading' = TRUE
            /\ posted' = [posted EXCEPT !.chat = Append(@, ChatBody(input))]
            /\ chat' = Append(chat, [pc |-> "fetch"])
            /\ last' = "submit"
            /\ UNCHANGED <<isOpen, showNotification>>
    /\ UNCHANGED <<timerState, mounted, audio, escaped, tts, now>>

\* A catch block that only logs.
ChatCatchSilent(i, error, tag) ==
    /\ isLoading' = FALSE
    /\ chat' = RemoveAt(chat, i)
    /\ last' = tag
    /\ UNCHANGED <<isOpen, messages, input, showNotification, timerState, mounted,
                   audio, posted, escaped, tts, now>>

\* A handler that clears the flag on the success path only (no finally).
ChatCatchNoFinally(i, error, tag) ==
    /\ messages' = Append(messages, fallbackMessage(error, now))
    /\ chat' = RemoveAt(chat, i)
    /\ last' = tag
    /\ UNCHANGED <<isOpen, input, isLoading, showNotification, timerState, mounted,
                   audio, posted, escaped, tts, now>>

\* A catch block that sets the list instead of appending to it.
ChatCatchOverwrites(i, error, tag) ==
    /\ messages' = <<fallbackMessage(error, now)>>
    /\ isLoading' = FALSE
    /\ chat' = RemoveAt(chat, i)
    /\ last' = tag
    /\ UNCHANGED <<isOpen, input, showNotification, timerState, mounted, audio,
                   posted, escaped, now, tts>>

\* catch (error) { ... } finally { setIsLoading(false) }
ChatCatch(i, error, tag) ==
    /\ messages' = Append(messages, fallbackMessage(error, now))
    /\ isLoading' = FALSE
    /\ chat' = RemoveAt(chat, i)
    /\ last' = tag
    /\ UNCHANGED <<isOpen, input, showNotification, timerState, mounted, audio,
                   posted, escaped, tts, now>>

\* fetch rejects: the network call throws
ChatFetchRejects(i) ==
    /\ chat[i].pc = "fetch"
    /\ ChatCatch(i, Error(NetworkFailure), "chat_threw")

\* fetch resolves: if (!response.ok) throw ...; await response.json()
ChatFetchResolves(i, ok) ==
    /\ chat[i].pc = "fetch"
    /\ IF ~ok
       THEN ChatCatch(i, Error(<<"Failed", " ", "to", " ", "get", " ", "AI", " ", "response">>), "chat_bad_status")
       ELSE /\ chat' = [chat EXCEPT ![i].pc = "json"]
            /\ last' = "chat_ok_status"
            /\ UNCHANGED <<hookState, timerState, mounted, audio, posted, escaped, tts, now>>

\* response.json() rejects: the body is not JSON
ChatJsonRejects(i) ==
    /\ chat[i].pc = "json"
    /\ ChatCatch(i, Error(JsonFailure), "chat_threw")

\* response.json() resolves with data
ChatJsonResolves(i, data) ==
    /\ chat[i].pc = "json"
    /\ IF data.type = "null"
       THEN ChatCatch(i, Error(NullFailure), "chat_threw")
       ELSE IF Truthy(data.error)
       THEN ChatCatch(i, Error(data.error.str), "chat_error_field")
       ELSE /\ messages' = Append(messages, aiMessage(data, now))
            /\ isLoading' = FALSE
            /\ chat' = RemoveAt(chat, i)
            /\ last' = "chat_reply"
            /\ UNCHANGED <<isOpen, input, showNotification, timerState, mounted,
                           audio, posted, escaped, tts, now>>

\* ------------------------------------------------- open / close and the timer
\* A clean-up that clears nothing.
effectCleanupNone(ivs, ref) == ivs

\* The clean-up returned by the effect: clearInterval(chatInterval.current)
effectCleanup(ivs, ref) ==
    IF ref # 0 THEN {t \in ivs : t.id # ref} ELSE ivs

\* The id setInterval returns: one that names no live timer.  (A browser
\* never hands out an id twice; an id is taken again here once its timer is
\* cleared, which no step can tell apart: chatInterval.current is read only
\* by the clean-up, and always holds the id of the timer created last.)
FreshId(ivs) ==
    CHOOSE n \in 1..(Cardinality(ivs) + 1) :
        /\ \A t \in ivs : t.id # n
        /\ \A m \in 1..(n - 1) : \E t \in ivs : t.id = m

\* useEffect(..., [isOpen]) after a commit that changed isOpen: the previous
\* clean-up, then the effect body with the new isOpen in its closure.
effectRerun(open) ==
    LET cleaned == effectCleanup(intervals, chatInterval)
        id == FreshId(cleaned)
    IN /\ intervals' = cleaned \cup {[id |-> id, isOpen |-> open]}
       /\ chatInterval' = id

\* {!isOpen && <button className={`chat-toggle ${showNotification ? ...}`}>}
ToggleRendered == ~isOpen
NotificationRendered == ToggleRendered /\ showNotification

\* onClick={() => setIsOpen(true)} of the chat-toggle button
openClick ==
    /\ mounted
    /\ ToggleRendered
    /\ isOpen' = TRUE
    /\ effectRerun(TRUE)
    /\ last' = "open"
    /\ UNCHANGED <<messages, input, isLoading, showNotification, hideTimeouts,
                   mounted, chat, audio, posted, escaped, tts, now>>

\* A close button that toggles: setIsOpen(!isOpen).
closeClickToggles ==
    /\ mounted
    /\ isOpen' = ~isOpen
    /\ effectRerun(~isOpen)
    /\ last' = (IF isOpen THEN "close" ELSE "close_again")
    /\ UNCHANGED <<messages, input, isLoading, showNotification, hideTimeouts,
                   mounted, chat, audio, posted, escaped, now, tts>>

\* A close button that also clears the conversation state.
closeClickResets ==
    /\ mounted
    /\ isOpen' = FALSE
    /\ input' = <<>>
    /\ IF isOpen
       THEN effectRerun(FALSE) /\ last' = "close"
       ELSE UNCHANGED <<chatInterval, intervals>> /\ last' = "close_again"
    /\ UNCHANGED <<messages, isLoading, showNotification, hideTimeouts,
                   mounted, chat, audio, posted, escaped, now, tts>>

\* onClick={() => setIsOpen(false)} of the close button; setting the value
\* the state already has commits nothing.
closeClick ==
    /\ mounted
    /\ isOpen' = FALSE
    /\ IF isOpen
       THEN effectRerun(FALSE) /\ last' = "close"
       ELSE UNCHANGED <<chatInterval, intervals>> /\ last' = "close_again"
    /\ UNCHANGED <<messages, input, isLoading, showNotification, hideTimeouts,
                   mounted, chat, audio, posted, escaped, tts, now>>

\* An interval callback without the test of isOpen.
NotifyAlways(open) == TRUE

\* if (!isOpen) in the interval callback, isOpen being the closure's
NotifyGuard(open) == ~open

\* The interval callback.  It runs IntervalMs after the timer was created or
\* last fired, so every timeout of HideDelayMs it scheduled before has fired.
intervalFires(t) ==
    /\ t \in intervals
    /\ HideDelayMs < IntervalMs => hideTimeouts = 0
    /\ IF NotifyGuard(t.isOpen)
       THEN /\ showNotification' = TRUE
            /\ hideTimeouts' = hideTimeouts + 1
            /\ last' = "notify"
       ELSE /\ UNCHANGED <<showNotification, hideTimeouts>>
            /\ last' = "interval_skipped"
    /\ UNCHANGED <<isOpen, messages, input, isLoading, chatInterval, intervals,
                   mounted, chat, audio, posted, escaped, tts, now>>

\* A timeout callback that sets the flag it was meant to clear.
hideTimeoutKeepsFlag ==
    /\ hideTimeouts > 0
    /\ showNotification' = TRUE
    /\ hideTimeouts' = hideTimeouts - 1
    /\ last' = "hide"
    /\ UNCHANGED <<isOpen, messages, input, isLoading, chatInterval, intervals,
                   mounted, chat, audio, posted, escaped, tts, now>>

\* setTimeout(() => setShowNotification(false), 5000)
hideTimeoutFires ==
    /\ hideTimeouts > 0
    /\ showNotification' = FALSE
    /\ hideTimeouts' = hideTimeouts - 1
    /\ last' = "hide"
    /\ UNCHANGED <<isOpen, messages, input, isLoading, chatInterval, intervals,
                   mounted, chat, audio, posted, escaped, tts, now>>

\* An unmount that aborts the requests and clears the timeouts.
unmountCancels ==
    /\ mounted
    /\ mounted' = FALSE
    /\ intervals' = effectCleanup(intervals, chatInterval)
    /\ chat' = <<>>
    /\ hideTimeouts' = 0
    /\ last' = "unmount"
    /\ UNCHANGED <<hookState, chatInterval, audio, posted, escaped, now, tts>>

\* The host unmounts the widget: the effect clean-up runs, nothing else.
unmount ==
    /\ mounted
    /\ mounted' = FALSE
    /\ intervals' = effectCleanup(intervals, chatInterval)
    /\ last' = "unmount"
    /\ UNCHANGED <<hookState, chatInterval, hideTimeouts, chat, audio, posted,
                   escaped, tts, now>>

\* --------------------------------------------------------------- playAudio
\* if (audioBuffer): an ArrayBuffer is an object, truthy whatever its length
BufferTruthy(byteLength) == TRUE

PlayFrame == <<hookState, timerState, mounted, chat, posted, now>>

\* onClick={() => playAudio(message.text)}, up to the await of fetch
playAudio(m) ==
    /\ mounted
    /\ m \in 1..Len(messages)
    /\ messages[m].isAI
    /\ Len(audio) < MaxPlays
    /\ posted' = [posted EXCEPT !.speech = @ + 1]
    /\ audio' = Append(audio, [pc |-> "fetch", created |-> FALSE, revokes |-> 0,
                               ended |-> FALSE])
    /\ last' = "play_click"
    /\ UNCHANGED <<hookState, timerState, mounted, chat, escaped, tts, now>>

\* A catch block copied from handleSubmit: it reports in the conversation.
PlayCatchReports(k, error, tag) ==
    /\ audio' = [audio EXCEPT ![k].pc = "caught"]
    /\ messages' = Append(messages, fallbackMessage(error, now))
    /\ last' = tag
    /\ UNCHANGED <<isOpen, input, isLoading, showNotification, timerState, mounted,
                   chat, posted, now, escaped, tts>>

\* catch (error) { console.error('Error playing audio:', error); }
PlayCatch(k, error, tag) ==
    /\ audio' = [audio EXCEPT ![k].pc = "caught"]
    /\ last' = tag
    /\ UNCHANGED <<PlayFrame, escaped, tts>>

SpeechFetchRejects(k) ==
    /\ audio[k].pc = "fetch"
    /\ PlayCatch(k, Error(NetworkFailure), "speech_threw")

\* if (!response.ok) throw ...; await response.arrayBuffer()
SpeechFetchResolves(k, ok) ==
    /\ audio[k].pc = "fetch"
    /\ IF ~ok
       THEN PlayCatch(k, Error(<<"Failed", " ", "to", " ", "get", " ", "audio">>),
                      "speech_bad_status")
       ELSE /\ audio' = [audio EXCEPT ![k].pc = "buffer"]
            /\ last' = "speech_ok_status"
            /\ UNCHANGED <<PlayFrame, escaped, tts>>

SpeechBufferRejects(k) ==
    /\ audio[k].pc = "buffer"
    /\ PlayCatch(k, Error(NetworkFailure), "speech_threw")

\* arrayBuffer() resolves: createObjectURL, new Audio, audio.play()
SpeechBufferResolves(k, byteLength) ==
    /\ audio[k].pc = "buffer"
    /\ IF BufferTruthy(byteLength)
       THEN audio' = [audio EXCEPT ![k].pc = "play", ![k].created = TRUE]
       ELSE audio' = [audio EXCEPT ![k].pc = "returned"]
    /\ last' = "speech_buffer"
    /\ UNCHANGED <<PlayFrame, escaped, tts>>

\* audio.play() rejects (autoplay refused, payload not playable)
PlayRejects(k) ==
    /\ audio[k].pc = "play"
    /\ PlayCatch(k, Error(PlayFailure), "play_rejected")

\* audio.play() resolves: audio.onended = () => URL.revokeObjectURL(audioUrl)
PlayResolves(k) ==
    /\ audio[k].pc = "play"
    /\ audio' = [audio EXCEPT ![k].pc = "playing"]
    /\ last' = "play_started"
    /\ UNCHANGED <<PlayFrame, escaped, tts>>

\* The ended event of the audio element, delivered to onended
PlaybackEnds(k) ==
    /\ audio[k].pc = "playing"
    /\ audio' = [audio EXCEPT ![k].pc = "ended", ![k].ended = TRUE,
                              ![k].revokes = @ + 1]
    /\ last' = "play_ended"
    /\ UNCHANGED <<PlayFrame, escaped, tts>>

BufferLengths == {0, 1}

\* ------------------------------------------------------------ textToSpeech
\* Something thrown: an Error object with its message, or any other value
\* (its content is kept in the same field).
NewError(msg) == [instanceOfError |-> TRUE, message |-> msg]
NonError(v) == [instanceOfError |-> FALSE, message |-> v]

GenericMessage == <<"An", " ", "unexpected", " ", "error", " ", "occurred">>

\* A formatter that drops the message of the error it is given.
formatErrorResponseGeneric(error) == GenericMessage

formatErrorResponse(error) ==
    IF error.instanceOfError THEN error.message ELSE GenericMessage

\* The argument of a call: undefined, '', a text, or a number.
Num(s) == [type |-> "number", str |-> s]
TtsTexts == { Undefined, Str(<<>>), Str(<<"hello">>), Num(<<"7">>) }

\* import.meta.env.PUBLIC_ELEVENLABS_API_KEY
ApiKeys == { Undefined, Str(<<>>), Str(<<"key">>) }

\* What voice.textToSpeech does once called: it resolves with null or with a
\* buffer of some length, or it rejects with an Error or with another value.
ProviderOutcomes ==
    [kind : {"resolve"}, present : BOOLEAN, byteLength : BufferLengths,
     thrown : {NonError(<<>>)}]
    \cup [kind : {"reject"}, present : {FALSE}, byteLength : {0},
          thrown : {NewError(<<"quota", " ", "exceeded">>), NewError(<<>>),
                    NonError(<<"timeout">>)}]

TtsCalls ==
    [pc : {"start"}, text : TtsTexts, key : ApiKeys, provider : ProviderOutcomes,
     called : {FALSE}, result : {[kind |-> "none", byteLength |-> 0, message |-> <<>>]}]

\* JavaScript truthiness of the argument
TextTruthy(v) ==
    \/ v.type = "string" /\ v.str # <<>>
    \/ v.type = "number" /\ v.str # <<"0">>

\* if (!text || typeof text !== 'string')
InvalidText(text) == ~TextTruthy(text) \/ text.type # "string"

\* if (!audioResponse || audioResponse.byteLength === 0)
NoAudio(outcome) == ~outcome.present \/ outcome.byteLength = 0

widgetVars == <<isOpen, messages, input, isLoading, showNotification, chatInterval,
                intervals, hideTimeouts, mounted, chat, audio, posted, escaped, now,
                last>>

\* catch (error) { ...; throw new Error(formatErrorResponse(error)); }
TtsCatch(error) ==
    /\ tts' = [tts EXCEPT !.pc = "done",
                          !.result = [kind |-> "thrown", byteLength |-> 0,
                                      message |-> formatErrorResponse(error)]]
    /\ UNCHANGED widgetVars

\* textToSpeech up to the await of the provider call
textToSpeech ==
    /\ tts.pc = "start"
    /\ IF InvalidText(tts.text)
       THEN TtsCatch(NewError(<<"Invalid", " ", "text", " ", "input">>))
       ELSE IF ~Truthy(tts.key)
       THEN TtsCatch(NewError(<<"ElevenLabs", " ", "API", " ", "key", " ", "is", " ",
                                "not", " ", "configured">>))
       ELSE /\ tts' = [tts EXCEPT !.pc = "await", !.called = TRUE]
            /\ UNCHANGED widgetVars

\* voice.textToSpeech settles: the payload test, return audioResponse
ProviderSettles ==
    /\ tts.pc = "await"
    /\ IF tts.provider.kind = "reject"
       THEN TtsCatch(tts.provider.thrown)
       ELSE IF NoAudio(tts.provider)
       THEN TtsCatch(NewError(<<"No", " ", "audio", " ", "data", " ", "received", " ",
                                "from", " ", "ElevenLabs">>))
       ELSE /\ tts' = [tts EXCEPT !.pc = "done",
                                  !.result = [kind |-> "returned",
                                              byteLength |-> tts.provider.byteLength,
                                              message |-> <<>>]]
            /\ UNCHANGED widgetVars

\* One call of textToSpeech, for every argument, environment and provider.
TtsInit == WidgetInit /\ tts \in TtsCalls

TtsNext ==
    \/ textToSpeech
    \/ ProviderSettles

TtsSpec == TtsInit /\ [][TtsNext]_vars

\* ------------------------------------------------------------------- Next
Next ==
    \/ \E v \in Inputs : onChange(v)
    \/ handleSubmit
    \/ \E i \in 1..Len(chat) : ChatFetchRejects(i)
    \/ \E i \in 1..Len(chat), ok \in BOOLEAN : ChatFetchResolves(i, ok)
    \/ \E i \in 1..Len(chat) : ChatJsonRejects(i)
    \/ \E i \in 1..Len(chat), data \in Bodies : ChatJsonResolves(i, data)
    \/ openClick
    \/ closeClick
    \/ \E t \in intervals : intervalFires(t)
    \/ hideTimeoutFires
    \/ unmount
    \/ \E m \in 1..Len(messages) : playAudio(m)
    \/ \E k \in 1..Len(audio) : SpeechFetchRejects(k)
    \/ \E k \in 1..Len(audio), ok \in BOOLEAN : SpeechFetchResolves(k, ok)
    \/ \E k \in 1..Len(audio) : SpeechBufferRejects(k)
    \/ \E k \in 1..Len(audio), n \in BufferLengths : SpeechBufferResolves(k, n)
    \/ \E k \in 1..Len(audio) : PlayRejects(k)
    \/ \E k \in 1..Len(audio) : PlayResolves(k)
    \/ \E k \in 1..Len(audio) : PlaybackEnds(k)

\* No guard and no field other than a message's id and timestamp reads the
\* clock: Spec explores the tasks with the clock standing still, TimedSpec
\* lets it advance between any two of them.
Spec == Init /\ [][Next]_vars

TimedNext == Next \/ Tick

TimedSpec == Init /\ [][TimedNext]_vars

\* The handlers that read Date.now(), with the clock advancing between any two
\* of them.  The widget may be mounted at any time: at 0, or one millisecond
\* before the clock's decimal representation grows by a digit.
ClockStarts == {0, 9}

ClockedInit == FirstRender /\ now \in ClockStarts /\ tts = NotCalled

ClockedNext ==
    \/ \E v \in Inputs : onChange(v)
    \/ handleSubmit
    \/ \E i \in 1..Len(chat) : ChatFetchRejects(i)
    \/ \E i \in 1..Len(chat), ok \in BOOLEAN : ChatFetchResolves(i, ok)
    \/ \E i \in 1..Len(chat) : ChatJsonRejects(i)
    \/ \E i \in 1..Len(chat), data \in Bodies : ChatJsonResolves(i, data)
    \/ Tick

ClockedSpec == ClockedInit /\ [][ClockedNext]_vars

\* A pending fetch or response.json() promise settles (a response, an error
\* or the browser's own time-out), and the event loop then runs the rest of
\* handleSubmit.
ChatSettles ==
    \E i \in 1..Len(chat) :
        \/ ChatFetchRejects(i)
        \/ \E ok \in BOOLEAN : ChatFetchResolves(i, ok)
        \/ ChatJsonRejects(i)
        \/ \E data \in Bodies : ChatJsonResolves(i, data)

FairSpec == Spec /\ WF_vars(ChatSettles)

\* ------------------------------------------------------------------ claims
SubmitTags == {"submit", "submit_blank", "submit_busy"}
ChatThrowTags == {"chat_threw"}
ChatFailTags == ChatThrowTags \cup {"chat_bad_status", "chat_error_field"}
ChatEndTags == ChatFailTags \cup {"chat_reply"}

LastMessage == messages[Len(messages)]

\* handleSubmit ran with an input that is not blank and no request in flight:
\* it appends the user message, with the input as its text, and sets the flag.
C1_AcceptedSubmit ==
    (last' \in SubmitTags /\ Trim(input) # <<>> /\ ~isLoading)
        => /\ last' = "submit"
           /\ Len(messages') = Len(messages) + 1
           /\ SubSeq(messages', 1, Len(messages)) = messages
           /\ ~messages'[Len(messages')].isAI
           /\ messages'[Len(messages')].text = input
           /\ isLoading'

\* The request settled, whatever the outcome: one assistant message goes
\* right after the user message of that submission, and the flag is cleared.
C1_Settled ==
    (last' \in ChatEndTags)
        => /\ Len(messages) > 0
           /\ ~LastMessage.isAI
           /\ Len(messages') = Len(messages) + 1
           /\ SubSeq(messages', 1, Len(messages)) = messages
           /\ messages'[Len(messages')].isAI
           /\ ~isLoading'

\* Nothing else adds to the conversation.
C1_NoOtherAppend ==
    (last' \notin ChatEndTags \cup {"submit"}) => messages' = messages

\* C1: every accepted submit (input not blank after trimming, no request in
\* flight) appends exactly one user message at once and, once the chat request
\* has settled, exactly one assistant message after it; the in-flight flag is
\* false before the submit and false again after the request settled.
C1_SubmitYieldsOnePair ==
    /\ [][C1_AcceptedSubmit /\ C1_Settled /\ C1_NoOtherAppend]_vars
    /\ (UserCount(messages) # AiCount(messages))
          ~> (UserCount(messages) = AiCount(messages) /\ ~isLoading)

C1_Witness ==
    /\ last \in ChatEndTags
    /\ Len(messages) = 2
    /\ ~messages[1].isAI /\ messages[1].text = <<" ", "a", " ">>
    /\ messages[2].isAI
    /\ ~isLoading

\* C2: a submit while a chat request is in flight is a no-op: no message is
\* appended, no HTTP request is issued, and the pending input, the in-flight
\* flag and the outstanding request are as they were.
C2_BusySubmitIsNoOp ==
    [][(last' \in SubmitTags /\ isLoading)
          => UNCHANGED <<messages, posted, input, isLoading, chat>>]_vars

C2_Witness ==
    /\ last = "submit_busy"
    /\ isLoading
    /\ Trim(input) # <<>>
    /\ chat # <<>>

\* C3: a submit of an empty or white-space-only input is a no-op: the
\* conversation, the in-flight flag and the outstanding requests are as they
\* were, and no HTTP request is issued.
C3_BlankSubmitIsNoOp ==
    [][(last' \in SubmitTags /\ Trim(input) = <<>>)
          => UNCHANGED <<messages, isLoading, chat, posted>>]_vars

C3_Witness ==
    /\ last = "submit_blank"
    /\ input = <<" ", " ">>
    /\ ~isLoading

\* C4: after an accepted submit the in-flight flag is eventually cleared,
\* whether the request succeeds, fails or throws; the flag is never true
\* with no chat request outstanding.
C4_FlagCleared ==
    /\ [](isLoading => chat # <<>>)
    /\ isLoading ~> ~isLoading

C4_Witness ==
    /\ last \in ChatThrowTags
    /\ ~isLoading
    /\ chat = <<>>

\* A chat request ends in failure: the status is not a success, the decoded
\* body has a truthy error field, or the network call or the decoding threw.
ChatFails(i) ==
    \/ ChatFetchRejects(i)
    \/ ChatFetchResolves(i, FALSE)
    \/ ChatJsonRejects(i)
    \/ \E data \in Bodies :
          /\ data.type = "null" \/ Truthy(data.error)
          /\ ChatJsonResolves(i, data)

\* C5: when the chat request ends with a non-success status, a truthy error
\* field or a thrown exception, the assistant message appended for that
\* submission has exactly the fixed fallback text, and no exception leaves
\* handleSubmit.
C5_FailureShowsFallback ==
    [][\A i \in 1..Len(chat) :
          ChatFails(i)
              => /\ last' \in ChatFailTags
                 /\ Len(messages') = Len(messages) + 1
                 /\ messages'[Len(messages')].isAI
                 /\ messages'[Len(messages')].text = FallbackText
                 /\ ~escaped']_vars

C5_Witness ==
    /\ last = "chat_error_field"
    /\ LastMessage.isAI
    /\ LastMessage.text = FallbackText
    /\ LastMessage.text # <<"boom">>
    /\ ~escaped

\* C6: when the endpoint answers with a success status and a body
\* { response: r } whose error field is missing (or empty), the assistant
\* message appended for that submission has text r, as received, and
\* isAI = true.
C6_ReplyShownAsReceived ==
    [][\A i \in 1..Len(chat) : \A data \in Bodies :
          (data.type = "object" /\ ~Truthy(data.error) /\ ChatJsonResolves(i, data))
              => /\ last' = "chat_reply"
                 /\ Len(messages') = Len(messages) + 1
                 /\ messages'[Len(messages')].isAI
                 /\ messages'[Len(messages')].text = data.response]_vars

C6_Witness ==
    /\ last = "chat_reply"
    /\ LastMessage.isAI
    /\ LastMessage.text = <<"hi", " ">>
    /\ posted.chat # <<>>

UserMessages == SelectSeq(messages, LAMBDA m : ~m.isAI)

\* C7: every accepted submit issues exactly one POST to /api/chat, whose
\* body's message is the text of the user message just appended, and nothing
\* is sent again after a failure: the requests issued so far are, in order,
\* the user messages of the conversation.
C7_OnePostPerSubmit ==
    /\ Len(posted.chat) = Len(UserMessages)
    /\ \A k \in 1..Len(UserMessages) : posted.chat[k] = [message |-> UserMessages[k].text]

C7_Witness ==
    /\ Len(messages) = 3
    /\ messages[2].text = FallbackText
    /\ Len(posted.chat) = 2
    /\ posted.chat[2].message = <<" ", "a", " ">>

\* C8: no step of playAudio changes the conversation or the in-flight flag,
\* also while a chat request is in flight; after a non-success status or a
\* thrown error the call does nothing more, and no exception leaves it.
C8_PlayAudioFrame ==
    [][/\ (audio' # audio) => (UNCHANGED <<messages, isLoading>> /\ ~escaped')
       /\ \A k \in 1..Len(audio) : audio[k].pc = "caught" => audio'[k] = audio[k]]_vars

C8_Witness ==
    /\ last = "speech_bad_status"
    /\ \E k \in 1..Len(audio) : audio[k].pc = "caught"
    /\ isLoading
    /\ chat # <<>>
    /\ ~escaped

PlayAudioOver(a) == a.pc \in {"caught", "ended", "returned"}

\* C9: the object URL created by a playAudio call whose speech request
\* succeeded is released exactly once, only after playback has ended, and is
\* not left unreleased once the call is over, also when starting playback
\* failed after the URL was created.
C9_UrlReleasedOnce ==
    \A k \in 1..Len(audio) :
        audio[k].created
            => /\ audio[k].revokes <= 1
               /\ audio[k].revokes = 1 => audio[k].ended
               /\ PlayAudioOver(audio[k]) => audio[k].revokes = 1

\* C10 as stated: the notification flag is true only while the widget is
\* collapsed.
C10_FlagOnlyWhileCollapsed == showNotification => ~isOpen

\* C10 amended: the notification flag is switched on only by a timer firing
\* while the widget is collapsed, and is true only while a hide timeout is
\* pending; it can stay true after the widget is expanded during that delay.
C10_FlagRaisedOnlyWhileCollapsed ==
    /\ [](showNotification => hideTimeouts > 0)
    /\ [][(~showNotification /\ showNotification')
             => (last' = "notify" /\ ~isOpen /\ ~isOpen')]_vars

C10_Witness ==
    /\ showNotification
    /\ isOpen
    /\ hideTimeouts > 0
    /\ last = "open"

\* A pending setTimeout callback runs once its delay is over, mounted or not.
NotifyFairSpec == Spec /\ WF_vars(hideTimeoutFires)

\* C11: every notification the recurring timer shows is eventually hidden by
\* its timeout; and while the widget is expanded no timer firing switches
\* the notification flag on or schedules a hide: that takes collapsing the
\* widget again.
C11_HiddenAndSuppressed ==
    /\ showNotification ~> ~showNotification
    /\ [][isOpen => /\ last' # "notify"
                    /\ showNotification' => showNotification
                    /\ hideTimeouts' <= hideTimeouts]_vars

C11_Witness ==
    /\ last = "hide"
    /\ ~showNotification
    /\ hideTimeouts = 0
    /\ isOpen

\* The call has what it takes to return audio: a non-empty string, a
\* configured key, and a provider that resolves with a non-empty payload.
TtsCanSucceed ==
    /\ tts.text.type = "string" /\ tts.text.str # <<>>
    /\ tts.key.type = "string" /\ tts.key.str # <<>>
    /\ tts.provider.kind = "resolve"
    /\ tts.provider.present
    /\ tts.provider.byteLength > 0

TtsInputOrKeyMissing ==
    \/ tts.text.type # "string" \/ tts.text.str = <<>>
    \/ tts.key.type # "string" \/ tts.key.str = <<>>

\* The message the thrown Error is to carry.
TtsExpectedMessage ==
    IF tts.text.type # "string" \/ tts.text.str = <<>>
    THEN <<"Invalid", " ", "text", " ", "input">>
    ELSE IF tts.key.type # "string" \/ tts.key.str = <<>>
    THEN <<"ElevenLabs", " ", "API", " ", "key", " ", "is", " ", "not", " ", "configured">>
    ELSE IF tts.provider.kind = "reject"
    THEN (IF tts.provider.thrown.instanceOfError
          THEN tts.provider.thrown.message
          ELSE <<"An", " ", "unexpected", " ", "error", " ", "occurred">>)
    ELSE <<"No", " ", "audio", " ", "data", " ", "received", " ", "from", " ", "ElevenLabs">>

\* C12: textToSpeech returns the provider's audio only for a non-empty string
\* input, a configured key and a non-empty payload; a bad input, a missing
\* key, an empty or absent payload and a provider exception each make it
\* throw an Error whose message is a plain string (the original Error's
\* message, or the generic one for a non-Error throw); the provider is not
\* called when the input or the key check fails.
C12_TextToSpeechOutcome ==
    /\ tts.called => ~TtsInputOrKeyMissing
    /\ tts.pc = "done" =>
          /\ tts.result.kind = "returned" <=> TtsCanSucceed
          /\ tts.result.kind = "returned"
                => tts.result.byteLength = tts.provider.byteLength /\ tts.called
          /\ ~TtsCanSucceed
                => /\ tts.result.kind = "thrown"
                   /\ tts.result.message = TtsExpectedMessage
          /\ TtsInputOrKeyMissing => ~tts.called

C12_Witness ==
    /\ tts.pc = "done"
    /\ tts.called
    /\ tts.provider.kind = "reject"
    /\ tts.provider.thrown.instanceOfError
    /\ tts.result.kind = "thrown"
    /\ tts.result.message = <<"quota", " ", "exceeded">>

\* C13: the widget starts collapsed, and its open/closed state changes only
\* by the open button (collapsed to expanded) and the close button (to
\* collapsed); no submit, chat response, playAudio step or timer changes it.
C13_OnlyButtonsToggle ==
    /\ ~isOpen
    /\ [][(isOpen' # isOpen)
             => \/ last' = "open" /\ ~isOpen /\ isOpen'
                \/ last' = "close" /\ isOpen /\ ~isOpen']_vars

C13_Witness ==
    /\ last = "close"
    /\ ~isOpen
    /\ messages # <<>>

\* C14: the conversation is append-only under every interleaving: each step
\* leaves the previous list as a prefix of the new one.
C14_AppendOnly ==
    [][/\ Len(messages') >= Len(messages)
       /\ SubSeq(messages', 1, Len(messages)) = messages]_vars

C14_Witness ==
    /\ Len(messages) = 4
    /\ messages[2].text = FallbackText
    /\ audio # <<>>
    /\ isOpen
    /\ last \in ChatEndTags

\* C15: at most one recurring notification timer is active: while mounted
\* there is exactly the one chatInterval.current names, after unmount there
\* is none, and a step that creates a timer or unmounts disposes of the one
\* that was active (each timer is disposed of once, by the step that follows
\* its creation among open, close and unmount).
C15_OneTimer ==
    /\ Cardinality(intervals) <= 1
    /\ mounted => \E t \in intervals : intervals = {t} /\ t.id = chatInterval
    /\ ~mounted => intervals = {}
    /\ [][intervals' # intervals
             => /\ last' \in {"open", "close", "unmount"}
                /\ Cardinality(intervals) = 1
                /\ intervals' \cap intervals = {}
                /\ Cardinality(intervals') = (IF last' = "unmount" THEN 0 ELSE 1)]_vars

C15_Witness ==
    /\ last = "unmount"
    /\ isOpen
    /\ intervals = {}
    /\ hideTimeouts > 0

\* parseInt of a string of decimal digits
DigitValue(c) == CHOOSE d \in 0..9 : DigitChar[d + 1] = c

RECURSIVE ParseInt(_)
ParseInt(s) ==
    IF s = <<>>
    THEN 0
    ELSE ParseInt(SubSeq(s, 1, Len(s) - 1)) * 10 + DigitValue(s[Len(s)])

IdOf(i) == ParseInt(messages[i].id)

\* C16 as stated: read as integers, the ids never decrease along the list.
C16_IdsMonotonic ==
    \A i, j \in 1..Len(messages) : i < j => IdOf(i) <= IdOf(j)

\* C16, amended: an id is never more than 1 below an earlier one, and only an
\* assistant message is followed by a smaller id; user ids never decrease.
C16_IdsFallByAtMostOne ==
    \A i, j \in 1..Len(messages) :
        i < j => /\ IdOf(j) >= IdOf(i) - 1
                 /\ IdOf(j) < IdOf(i) => messages[i].isAI
                 /\ (~messages[i].isAI /\ ~messages[j].isAI) => IdOf(i) <= IdOf(j)

C16_Witness ==
    /\ Len(messages) = 3
    /\ messages[2].isAI
    /\ messages[2].id = <<"1", "0">>
    /\ messages[3].id = <<"9">>
    /\ last = "submit"

\* C17: nothing is cancelled by unmount.  The unmount step leaves the
\* outstanding chat requests, the pending hide timeouts and the playAudio
\* calls as they were, and after it every outstanding request can still
\* settle and every pending hide timeout can still fire.
C17_NoCancellation ==
    /\ [][last' = "unmount" => UNCHANGED <<chat, hideTimeouts, audio>>]_vars
    /\ (~mounted /\ chat # <<>>) => ENABLED ChatSettles
    /\ (~mounted /\ hideTimeouts > 0) => ENABLED hideTimeoutFires

\* Unmounted, and the state updates of a settled request have been applied.
C17_Witness ==
    /\ ~mounted
    /\ last = "chat_reply"
    /\ ~isLoading
    /\ chat = <<>>
    /\ LastMessage.isAI
    /\ hideTimeouts > 0

\* Unmounted, and a hide timeout scheduled before the unmount has fired.
C17_TimeoutAfterUnmount ==
    /\ ~mounted
    /\ last = "hide"
    /\ ~showNotification

\* C18: at most one chat request is outstanding, the in-flight flag is true
\* exactly when one is, and the conversation alternates user, assistant,
\* user, ... from a user message: user messages outnumber assistant messages
\* by 1 while a request is in flight and by 0 otherwise.
C18_OneRequestAlternating ==
    /\ Len(chat) <= 1
    /\ isLoading <=> Len(chat) = 1
    /\ \A i \in 1..Len(messages) : messages[i].isAI <=> i % 2 = 0
    /\ UserCount(messages) - AiCount(messages) = (IF isLoading THEN 1 ELSE 0)

C18_Witness ==
    /\ isLoading
    /\ Len(chat) = 1
    /\ Len(messages) = 3
    /\ last = "submit_busy"

\* C19: opening, closing, a notification-timer firing and a hide timeout
\* leave the conversation, the pending input, the in-flight flag, the
\* outstanding request and the requests sent unchanged; a request in flight
\* while the widget is collapsed still completes with an assistant message.
C19_ToggleAndTimerFrame ==
    /\ [][last' \in {"open", "close", "close_again", "notify",
                     "interval_skipped", "hide"}
             => UNCHANGED <<messages, input, isLoading, chat, posted>>]_vars
    /\ (~isOpen /\ isLoading) ~> (~isLoading /\ messages # <<>> /\ LastMessage.isAI)

C19_Witness ==
    /\ last = "close"
    /\ isLoading
    /\ chat # <<>>
    /\ input # <<>>

====
